---- MODULE Spec2Model ----
(***************************************************************************)
(* The ERC20 ledger of src/lib.rs (ink! contract `erc20`): total supply,   *)
(* per-account balances, allowances, and the messages that mutate them.    *)
(* Every message runs to completion as one step (ink! dispatches messages  *)
(* serially against the contract's storage).                               *)
(***************************************************************************)
EXTENDS Integers, Sequences, FiniteSets, TLC

\* ---------------------------------------------------------------- bounds

\* Largest value of the amount type `Balance` (u128 in the source, scaled
\* down); arithmetic on amounts is modulo MaxAmount + 1.
MaxAmount == 2

\* Number of messages dispatched after construction.
MaxCalls == 2

\* Number of messages dispatched after construction in the executions that
\* call only `transfer` (SpecTransfers).
MaxTransfers == 3

\* Number of messages dispatched after construction in the executions of
\* one owner and one spender (SpecAudit).
MaxAuditCalls == 4

Modulus == MaxAmount + 1

Amounts == 0..MaxAmount

\* AccountId values: the callers and parties of the messages.
Accounts == {"X", "Y", "Z"}

\* Option::None of the `from` topic of a Transfer event; also used for the
\* fields of a call record that the call does not have.
None == "None"

\* ------------------------------------------------------- events and errors

Transfer(from, to, value) == <<"Transfer", from, to, value>>

Approval(owner, spender, value) == <<"Approval", owner, spender, value>>

Error == {"InsuffientBalance", "InsuffientApproval", "ApproveOverflow", "AllowanceBelowZero"}

\* A message that panics traps: the host reverts its storage writes and
\* events, and the caller gets neither Ok nor an Error.
Trap == "Trap"

\* --------------------------------------------------------------- storage

\* HashMap::new()
EmptyMap == [k \in {} |-> 0]

\* HashMap::insert
insert(m, k, v) == [x \in (DOMAIN m) \cup {k} |-> IF x = k THEN v ELSE m[x]]

\* HashMap::get(..).copied().unwrap_or(0)
get_or_zero(m, k) == IF k \in DOMAIN m THEN m[k] ELSE 0

\* ------------------------------------------------------------- arithmetic

\* The marker of an arithmetic panic.
Panic == -1

\* `a + b` on Balance: the exact sum when it fits; otherwise the build
\* decides: a panic (overflow checks on) or wraparound (overflow checks off).
unchecked_add(a, b) ==
    IF a + b <= MaxAmount THEN {a + b} ELSE {Panic, (a + b) % Modulus}

\* `a - b` on Balance: the exact difference when a >= b; otherwise a panic
\* or wraparound, as the build decides.
unchecked_sub(a, b) ==
    IF a >= b THEN {a - b} ELSE {Panic, (a - b + Modulus) % Modulus}

\* The marker of Option::None returned by checked_add.
CheckedNone == -2

\* Balance::checked_add: None when the sum does not fit the amount type.
checked_add(a, b) == IF a + b <= MaxAmount THEN a + b ELSE CheckedNone

\* ------------------------------------------------------------ the messages

\* The contract's storage (total_supply, balance, allowances), the events
\* emitted by the last message, the last message and its result, the storage
\* when it was dispatched, and the number of messages so far.
\* initial_supply records the argument given to `new`. audit is the history
\* of one owner's grants to one spender and of that spender's spending; it is
\* kept only in SpecAudit.
VARIABLES total_supply, balance, allowances, emitted, last, pre, calls,
          initial_supply, audit

vars == <<total_supply, balance, allowances, emitted, last, pre, calls,
          initial_supply, audit>>

\* fn balance_of(&self, owner)
balance_of(bal, owner) == get_or_zero(bal, owner)

\* fn allowance(&self, owner, spender)
allowance(alw, owner, spender) == get_or_zero(alw, <<owner, spender>>)

\* Mutant of new: the supply is not credited to the caller.
new_without_credit(supply, caller) ==
    [total_supply |-> supply,
     balance |-> EmptyMap,
     allowances |-> EmptyMap,
     emitted |-> <<Transfer(None, caller, supply)>>]

\* fn new(supply), called by `caller`: the constructed storage and the
\* event emitted.
new(supply, caller) ==
    [total_supply |-> supply,
     balance |-> insert(EmptyMap, caller, supply),
     allowances |-> EmptyMap,
     emitted |-> <<Transfer(None, caller, supply)>>]

\* Mutant of inner_transfer: the Transfer event is emitted before the
\* balance check.
inner_transfer_emit_first(bal, from, to, value) ==
    LET from_balance == balance_of(bal, from) IN
    IF from_balance < value
    THEN {[result |-> "InsuffientBalance", balance |-> bal,
           emitted |-> <<Transfer(from, to, value)>>]}
    ELSE LET to_balance == balance_of(bal, to) IN
         { IF d = Panic \/ c = Panic
           THEN [result |-> Trap, balance |-> bal, emitted |-> <<>>]
           ELSE [result |-> "Ok",
                 balance |-> insert(insert(bal, from, d), to, c),
                 emitted |-> <<Transfer(from, to, value)>>]
           : d \in unchecked_sub(from_balance, value),
             c \in unchecked_add(to_balance, value) }

\* fn inner_transfer(&mut self, from, to, value): the possible outcomes, as
\* [result, balance, emitted].
inner_transfer(bal, from, to, value) ==
    LET from_balance == balance_of(bal, from) IN
    IF from_balance < value
    THEN {[result |-> "InsuffientBalance", balance |-> bal, emitted |-> <<>>]}
    ELSE LET to_balance == balance_of(bal, to) IN
         { IF d = Panic \/ c = Panic
           THEN [result |-> Trap, balance |-> bal, emitted |-> <<>>]
           ELSE [result |-> "Ok",
                 balance |-> insert(insert(bal, from, d), to, c),
                 emitted |-> <<Transfer(from, to, value)>>]
           : d \in unchecked_sub(from_balance, value),
             c \in unchecked_add(to_balance, value) }

\* fn transfer(&mut self, to, value), called by `caller`: outcomes as
\* [result, balance, allowances, emitted].
transfer(bal, alw, caller, to, value) ==
    { [result |-> o.result, balance |-> o.balance, allowances |-> alw,
       emitted |-> o.emitted] : o \in inner_transfer(bal, caller, to, value) }

\* Mutant of approve: the key is (spender, owner).
approve_swapped_key(bal, alw, caller, spender, value) ==
    {[result |-> "Ok", balance |-> bal,
      allowances |-> insert(alw, <<spender, caller>>, value),
      emitted |-> <<Approval(caller, spender, value)>>]}

\* Mutant of approve: the value is added to the previous allowance.
approve_additive(bal, alw, caller, spender, value) ==
    LET new_value == (allowance(alw, caller, spender) + value) % Modulus IN
    {[result |-> "Ok", balance |-> bal,
      allowances |-> insert(alw, <<caller, spender>>, new_value),
      emitted |-> <<Approval(caller, spender, new_value)>>]}

\* fn approve(&mut self, spender, value), called by `caller`.
approve(bal, alw, caller, spender, value) ==
    {[result |-> "Ok", balance |-> bal,
      allowances |-> insert(alw, <<caller, spender>>, value),
      emitted |-> <<Approval(caller, spender, value)>>]}

\* Mutant of increase_approve: wrapping addition instead of checked_add.
increase_approve_wrapping(bal, alw, caller, spender, value) ==
    LET origin_value == allowance(alw, caller, spender)
        new_value == (origin_value + value) % Modulus IN
    {[result |-> "Ok", balance |-> bal,
      allowances |-> insert(alw, <<caller, spender>>, new_value),
      emitted |-> <<Approval(caller, spender, new_value)>>]}

\* fn increase_approve(&mut self, spender, value), called by `caller`.
increase_approve(bal, alw, caller, spender, value) ==
    LET origin_value == allowance(alw, caller, spender)
        new_value == checked_add(origin_value, value) IN
    IF new_value = CheckedNone
    THEN {[result |-> "ApproveOverflow", balance |-> bal, allowances |-> alw,
           emitted |-> <<>>]}
    ELSE {[result |-> "Ok", balance |-> bal,
           allowances |-> insert(alw, <<caller, spender>>, new_value),
           emitted |-> <<Approval(caller, spender, new_value)>>]}

\* Mutant of decrease_approve: the guard is missing.
decrease_approve_unguarded(bal, alw, caller, spender, value) ==
    LET origin_value == allowance(alw, caller, spender) IN
    { IF d = Panic
      THEN [result |-> Trap, balance |-> bal, allowances |-> alw,
            emitted |-> <<>>]
      ELSE [result |-> "Ok", balance |-> bal,
            allowances |-> insert(alw, <<caller, spender>>, d),
            emitted |-> <<Approval(caller, spender, d)>>]
      : d \in unchecked_sub(origin_value, value) }

\* Mutant of decrease_approve: the guard is `origin_value <= value`.
decrease_approve_off_by_one(bal, alw, caller, spender, value) ==
    LET origin_value == allowance(alw, caller, spender) IN
    IF origin_value <= value
    THEN {[result |-> "AllowanceBelowZero", balance |-> bal, allowances |-> alw,
           emitted |-> <<>>]}
    ELSE {[result |-> "Ok", balance |-> bal,
           allowances |-> insert(alw, <<caller, spender>>, origin_value - value),
           emitted |-> <<Approval(caller, spender, origin_value - value)>>]}

\* fn decrease_approve(&mut self, spender, value), called by `caller`.
decrease_approve(bal, alw, caller, spender, value) ==
    LET origin_value == allowance(alw, caller, spender) IN
    IF origin_value < value
    THEN {[result |-> "AllowanceBelowZero", balance |-> bal, allowances |-> alw,
           emitted |-> <<>>]}
    ELSE { IF d = Panic
           THEN [result |-> Trap, balance |-> bal, allowances |-> alw,
                 emitted |-> <<>>]
           ELSE [result |-> "Ok", balance |-> bal,
                 allowances |-> insert(alw, <<caller, spender>>, d),
                 emitted |-> <<Approval(caller, spender, d)>>]
           : d \in unchecked_sub(origin_value, value) }

\* Mutant of transfer_from: the allowance is debited before inner_transfer
\* is called, and the debit stays when inner_transfer fails.
transfer_from_debit_first(bal, alw, caller, from, to, value) ==
    LET allowed == allowance(alw, from, caller) IN
    IF allowed < value
    THEN {[result |-> "InsuffientApproval", balance |-> bal, allowances |-> alw,
           emitted |-> <<>>]}
    ELSE LET debited == insert(alw, <<from, caller>>, allowed - value) IN
         { [result |-> o.result, balance |-> o.balance, allowances |-> debited,
            emitted |-> o.emitted]
           : o \in inner_transfer(bal, from, to, value) }

\* Mutant of transfer_from: the allowance is read from (caller, from) and
\* the remainder is stored under (from, caller).
transfer_from_swapped_read(bal, alw, caller, from, to, value) ==
    LET allowed == allowance(alw, caller, from) IN
    IF allowed < value
    THEN {[result |-> "InsuffientApproval", balance |-> bal, allowances |-> alw,
           emitted |-> <<>>]}
    ELSE { [result |-> o.result, balance |-> o.balance,
            allowances |-> IF o.result = "Ok"
                           THEN insert(alw, <<from, caller>>, allowed - value)
                           ELSE alw,
            emitted |-> o.emitted]
           : o \in inner_transfer(bal, from, to, value) }

\* Mutant of transfer_from: the allowance is never debited.
transfer_from_no_debit(bal, alw, caller, from, to, value) ==
    LET allowed == allowance(alw, from, caller) IN
    IF allowed < value
    THEN {[result |-> "InsuffientApproval", balance |-> bal, allowances |-> alw,
           emitted |-> <<>>]}
    ELSE { [result |-> o.result, balance |-> o.balance, allowances |-> alw,
            emitted |-> o.emitted]
           : o \in inner_transfer(bal, from, to, value) }

\* Mutant of transfer_from: inner_transfer runs before the allowance check.
transfer_from_balance_first(bal, alw, caller, from, to, value) ==
    LET allowed == allowance(alw, from, caller) IN
    IF balance_of(bal, from) < value
    THEN {[result |-> "InsuffientBalance", balance |-> bal, allowances |-> alw,
           emitted |-> <<>>]}
    ELSE IF allowed < value
    THEN {[result |-> "InsuffientApproval", balance |-> bal, allowances |-> alw,
           emitted |-> <<>>]}
    ELSE { [result |-> o.result, balance |-> o.balance,
            allowances |-> IF o.result = "Ok"
                           THEN insert(alw, <<from, caller>>, allowed - value)
                           ELSE alw,
            emitted |-> o.emitted]
           : o \in inner_transfer(bal, from, to, value) }

\* fn transfer_from(&mut self, from, to, value), called by `caller`.
transfer_from(bal, alw, caller, from, to, value) ==
    LET allowed == allowance(alw, from, caller) IN
    IF allowed < value
    THEN {[result |-> "InsuffientApproval", balance |-> bal, allowances |-> alw,
           emitted |-> <<>>]}
    ELSE { IF o.result # "Ok"
           THEN [result |-> o.result, balance |-> bal, allowances |-> alw,
                 emitted |-> <<>>]
           ELSE IF d = Panic
           THEN [result |-> Trap, balance |-> bal, allowances |-> alw,
                 emitted |-> <<>>]
           ELSE [result |-> "Ok", balance |-> o.balance,
                 allowances |-> insert(alw, <<from, caller>>, d),
                 emitted |-> o.emitted]
           : o \in inner_transfer(bal, from, to, value),
             d \in unchecked_sub(allowed, value) }

\* ------------------------------------------------- history of one grant

\* No history is kept.
AuditOff ==
    [on |-> FALSE, owner |-> None, spender |-> None, spent |-> 0,
     granted |-> 0, approved |-> FALSE, stated_max |-> 0, stage |-> 0,
     a |-> 0, b |-> 0]

\* The history of `owner`'s grants to `spender`, at construction.
AuditStart(owner, spender) ==
    [AuditOff EXCEPT !.on = TRUE, !.owner = owner, !.spender = spender]

\* The value carried by the Transfer events in `events` whose source is
\* `from`.
RECURSIVE MovedFrom(_, _)
MovedFrom(events, from) ==
    IF events = <<>> THEN 0
    ELSE (IF Head(events)[1] = "Transfer" /\ Head(events)[2] = from
          THEN Head(events)[4] ELSE 0) + MovedFrom(Tail(events), from)

Max(x, y) == IF x >= y THEN x ELSE y

\* The history after message `call` ended with outcome `o`.
\*   spent       value moved by the spender's successful transfer_from calls
\*   granted     deltas of the owner's successful increase_approve calls
\*               minus those of its successful decrease_approve calls
\*   approved    the owner has called approve for the spender
\*   stated_max  the largest value the owner has stated in an approve
\*   stage       progress through: approve(a), transfer_from(a), approve(b),
\*               transfer_from(b), with a, b > 0 (1..4); 5 once any other
\*               successful message of the pair has intervened
Audit(o, call) ==
    IF ~audit.on \/ o.result # "Ok" THEN audit
    ELSE IF call.op = "approve" /\ call.caller = audit.owner
                                /\ call.spender = audit.spender
    THEN [audit EXCEPT
            !.approved = TRUE,
            !.stated_max = Max(audit.stated_max, call.value),
            !.stage = IF audit.stage = 0 /\ call.value > 0 THEN 1
                      ELSE IF audit.stage = 2 /\ call.value > 0 THEN 3
                      ELSE 5,
            !.a = IF audit.stage = 0 THEN call.value ELSE audit.a,
            !.b = IF audit.stage = 2 THEN call.value ELSE audit.b]
    ELSE IF call.op = "increase_approve" /\ call.caller = audit.owner
                                         /\ call.spender = audit.spender
    THEN [audit EXCEPT !.granted = audit.granted + call.value, !.stage = 5]
    ELSE IF call.op = "decrease_approve" /\ call.caller = audit.owner
                                         /\ call.spender = audit.spender
    THEN [audit EXCEPT !.granted = audit.granted - call.value, !.stage = 5]
    ELSE IF call.op = "transfer_from" /\ call.caller = audit.spender
                                      /\ call.from = audit.owner
    THEN [audit EXCEPT
            !.spent = audit.spent + MovedFrom(o.emitted, audit.owner),
            !.stage = IF audit.stage = 1 /\ call.value = audit.a THEN 2
                      ELSE IF audit.stage = 3 /\ call.value = audit.b THEN 4
                      ELSE 5]
    ELSE audit

\* ------------------------------------------------------ the state machine

\* The storage as it was when the last message was dispatched.
Snapshot == [total_supply |-> total_supply, balance |-> balance,
             allowances |-> allowances]

RECURSIVE SumOver(_, _)
SumOver(m, keys) ==
    IF keys = {} THEN 0
    ELSE LET k == CHOOSE x \in keys : TRUE IN m[k] + SumOver(m, keys \ {k})

\* sum(balances.values())
SumBalances(bal) == SumOver(bal, DOMAIN bal)

\* Mutant of Commit: total_supply is rewritten from the balances after
\* every message.
Commit_supply_from_balances(o, call) ==
    /\ balance' = o.balance
    /\ allowances' = o.allowances
    /\ emitted' = o.emitted
    /\ last' = [call EXCEPT !.result = o.result]
    /\ pre' = Snapshot
    /\ calls' = calls + 1
    /\ total_supply' = SumBalances(o.balance) % Modulus
    /\ audit' = Audit(o, call)
    /\ UNCHANGED initial_supply

\* The host commits a message's outcome `o`: storage writes and events.
\* total_supply has no writer after construction.
Commit(o, call) ==
    /\ balance' = o.balance
    /\ allowances' = o.allowances
    /\ emitted' = o.emitted
    /\ last' = [call EXCEPT !.result = o.result]
    /\ pre' = Snapshot
    /\ calls' = calls + 1
    /\ audit' = Audit(o, call)
    /\ UNCHANGED <<total_supply, initial_supply>>

Call(op, caller, from, to, spender, value) ==
    [op |-> op, caller |-> caller, from |-> from, to |-> to,
     spender |-> spender, value |-> value, result |-> "Ok"]

\* The state after `caller` constructed the contract with new(supply).
Constructed(supply, caller) ==
    LET s == new(supply, caller) IN
    /\ total_supply = s.total_supply
    /\ balance = s.balance
    /\ allowances = s.allowances
    /\ emitted = s.emitted
    /\ last = Call("new", caller, None, None, None, supply)
    /\ pre = [total_supply |-> 0, balance |-> EmptyMap, allowances |-> EmptyMap]
    /\ calls = 0
    /\ initial_supply = supply

Init ==
    \E supply \in Amounts, caller \in Accounts :
        /\ Constructed(supply, caller)
        /\ audit = AuditOff

DoTransfer ==
    /\ calls < MaxCalls
    /\ \E caller \in Accounts, to \in Accounts, value \in Amounts :
         \E o \in transfer(balance, allowances, caller, to, value) :
            Commit(o, Call("transfer", caller, None, to, None, value))

DoApprove ==
    /\ calls < MaxCalls
    /\ \E caller \in Accounts, spender \in Accounts, value \in Amounts :
         \E o \in approve(balance, allowances, caller, spender, value) :
            Commit(o, Call("approve", caller, None, None, spender, value))

DoIncreaseApprove ==
    /\ calls < MaxCalls
    /\ \E caller \in Accounts, spender \in Accounts, value \in Amounts :
         \E o \in increase_approve(balance, allowances, caller, spender, value) :
            Commit(o, Call("increase_approve", caller, None, None, spender, value))

DoDecreaseApprove ==
    /\ calls < MaxCalls
    /\ \E caller \in Accounts, spender \in Accounts, value \in Amounts :
         \E o \in decrease_approve(balance, allowances, caller, spender, value) :
            Commit(o, Call("decrease_approve", caller, None, None, spender, value))

DoTransferFrom ==
    /\ calls < MaxCalls
    /\ \E caller \in Accounts, from \in Accounts, to \in Accounts, value \in Amounts :
         \E o \in transfer_from(balance, allowances, caller, from, to, value) :
            Commit(o, Call("transfer_from", caller, from, to, None, value))

Next ==
    \/ DoTransfer
    \/ DoApprove
    \/ DoIncreaseApprove
    \/ DoDecreaseApprove
    \/ DoTransferFrom

Spec == Init /\ [][Next]_vars

\* The executions in which every message is a `transfer`, one message
\* longer than those of Spec.
OnlyTransfer ==
    /\ calls < MaxTransfers
    /\ \E caller \in Accounts, to \in Accounts, value \in Amounts :
         \E o \in transfer(balance, allowances, caller, to, value) :
            Commit(o, Call("transfer", caller, None, to, None, value))

SpecTransfers == Init /\ [][OnlyTransfer]_vars

\* The executions of one owner and one spender: the owner adjusts the
\* spender's allowance with approve, increase_approve and decrease_approve,
\* the spender calls transfer_from on the owner's balance, in any order; the
\* history of the pair is kept in `audit`.
InitAudit ==
    \E supply \in Amounts, caller \in Accounts :
        \E owner \in Accounts, spender \in Accounts :
            /\ Constructed(supply, caller)
            /\ audit = AuditStart(owner, spender)

OwnerApprove ==
    /\ calls < MaxAuditCalls
    /\ \E value \in Amounts :
         \E o \in approve(balance, allowances, audit.owner, audit.spender, value) :
            Commit(o, Call("approve", audit.owner, None, None, audit.spender, value))

OwnerIncreaseApprove ==
    /\ calls < MaxAuditCalls
    /\ \E value \in Amounts :
         \E o \in increase_approve(balance, allowances, audit.owner, audit.spender, value) :
            Commit(o, Call("increase_approve", audit.owner, None, None,
                           audit.spender, value))

OwnerDecreaseApprove ==
    /\ calls < MaxAuditCalls
    /\ \E value \in Amounts :
         \E o \in decrease_approve(balance, allowances, audit.owner, audit.spender, value) :
            Commit(o, Call("decrease_approve", audit.owner, None, None,
                           audit.spender, value))

SpenderTransferFrom ==
    /\ calls < MaxAuditCalls
    /\ \E to \in Accounts, value \in Amounts :
         \E o \in transfer_from(balance, allowances, audit.spender, audit.owner,
                                 to, value) :
            Commit(o, Call("transfer_from", audit.spender, audit.owner, to,
                           None, value))

NextAudit ==
    \/ OwnerApprove
    \/ OwnerIncreaseApprove
    \/ OwnerDecreaseApprove
    \/ SpenderTransferFrom

SpecAudit == InitAudit /\ [][NextAudit]_vars

\* ------------------------------------------------- vocabulary of the claims

Succeeded == last.result = "Ok"

Failed == last.result \in Error

\* The account debited by the last transfer or transfer_from.
Source == IF last.op = "transfer" THEN last.caller ELSE last.from

\* The values read by the last message before it wrote anything.
PreBalance(a) == balance_of(pre.balance, a)

PreAllowance(o, s) == allowance(pre.allowances, o, s)

\* The keys whose entry differs between map `m` and map `n` (an entry
\* present in one and absent from the other differs).
Changed(m, n) ==
    {k \in (DOMAIN m) \cup (DOMAIN n) :
        ~(k \in DOMAIN m /\ k \in DOMAIN n /\ m[k] = n[k])}

\* The allowance entries, as <<owner, spender>>, and the balance entries
\* that the last message changed.
ChangedAllowances == Changed(allowances, pre.allowances)

ChangedBalances == Changed(balance, pre.balance)

StorageUnchanged ==
    /\ total_supply = pre.total_supply
    /\ balance = pre.balance
    /\ allowances = pre.allowances

\* ------------------------------------------------------------------ claims

\* C1: in every state reachable from new(supply) by any sequence of
\* transfer, approve, increase_approve, decrease_approve and transfer_from
\* calls, the sum of all balances equals total_supply.
C1_Conservation == SumBalances(balance) = total_supply

\* C2: a successful transfer from an account to itself (transfer with
\* caller = to, transfer_from with from = to) leaves every balance as it was
\* before the call and emits one Transfer event {from: a, to: a, value}.
C2_SelfTransferNoOp ==
    (/\ last.op \in {"transfer", "transfer_from"}
     /\ Succeeded
     /\ Source = last.to)
    => /\ \A a \in Accounts : balance_of(balance, a) = PreBalance(a)
       /\ emitted = <<Transfer(last.to, last.to, last.value)>>

\* C3: whenever transfer, transfer_from, increase_approve or
\* decrease_approve returns an error, total_supply, every balance and every
\* allowance are as before the call and the call emitted no event.
C3_AtomicOnFailure ==
    (/\ last.op \in {"transfer", "transfer_from", "increase_approve", "decrease_approve"}
     /\ Failed)
    => /\ StorageUnchanged
       /\ emitted = <<>>

\* C3's case: transfer_from passed its allowance check with a positive
\* allowance and then failed inside inner_transfer.
C3_Witness ==
    /\ last.op = "transfer_from"
    /\ last.result = "InsuffientBalance"
    /\ PreAllowance(last.from, last.caller) >= last.value
    /\ PreAllowance(last.from, last.caller) > 0
    /\ last.from # last.to

\* C4: transfer(caller, to, value) succeeds if and only if
\* balance_of(caller) >= value and otherwise fails with InsuffientBalance; on
\* success with to # caller the caller's balance decreases by exactly value,
\* to's balance increases by exactly value and no other balance changes.
C4_Transfer ==
    last.op = "transfer"
    => /\ Succeeded <=> PreBalance(last.caller) >= last.value
       /\ ~Succeeded => last.result = "InsuffientBalance"
       /\ (Succeeded /\ last.to # last.caller)
          => /\ balance_of(balance, last.caller) = PreBalance(last.caller) - last.value
             /\ balance_of(balance, last.to) = PreBalance(last.to) + last.value
             /\ \A a \in Accounts \ {last.caller, last.to} :
                    balance_of(balance, a) = PreBalance(a)

\* C5: transfer_from(caller, from, to, value) succeeds only if
\* allowance(from, caller) >= value and balance_of(from) >= value held before
\* the call; on success the value moved is `value` (the Transfer event's
\* value, and from's debit when from # to) and allowance(from, caller) is its
\* previous value minus value; with allowance(from, caller) < value the call
\* fails with InsuffientApproval.
C5_TransferFromAllowanceBound ==
    last.op = "transfer_from"
    => /\ Succeeded
          => /\ PreAllowance(last.from, last.caller) >= last.value
             /\ PreBalance(last.from) >= last.value
             /\ emitted = <<Transfer(last.from, last.to, last.value)>>
             /\ last.from # last.to
                => balance_of(balance, last.from) = PreBalance(last.from) - last.value
             /\ allowance(allowances, last.from, last.caller)
                  = PreAllowance(last.from, last.caller) - last.value
       /\ PreAllowance(last.from, last.caller) < last.value
          => last.result = "InsuffientApproval"

\* C5's case: a transfer_from that spent the whole of a positive allowance.
C5_Witness ==
    /\ last.op = "transfer_from"
    /\ Succeeded
    /\ last.value > 0
    /\ last.from # last.to
    /\ last.caller # last.from
    /\ allowance(allowances, last.from, last.caller) = 0

\* C6: transfer_from checks the allowance before the balance: with
\* allowance(from, caller) < value it fails with InsuffientApproval whatever
\* from's balance is; with allowance(from, caller) >= value and
\* balance_of(from) < value it fails with InsuffientBalance and leaves
\* allowance(from, caller) untouched.
C6_AllowanceCheckedFirst ==
    last.op = "transfer_from"
    => /\ PreAllowance(last.from, last.caller) < last.value
          => last.result = "InsuffientApproval"
       /\ (/\ PreAllowance(last.from, last.caller) >= last.value
           /\ PreBalance(last.from) < last.value)
          => /\ last.result = "InsuffientBalance"
             /\ allowance(allowances, last.from, last.caller)
                  = PreAllowance(last.from, last.caller)

\* C6's case: both the allowance and the balance were insufficient, the
\* balance by more.
C6_Witness ==
    /\ last.op = "transfer_from"
    /\ 0 < PreAllowance(last.from, last.caller)
    /\ PreAllowance(last.from, last.caller) < last.value
    /\ PreBalance(last.from) < PreAllowance(last.from, last.caller)
    /\ last.result = "InsuffientApproval"

\* C7: approve(caller, spender, value) never fails and overwrites: after
\* the call allowance(caller, spender) = value whatever it was before, and
\* one Approval event {owner: caller, spender, value} is emitted.
C7_ApproveOverwrites ==
    last.op = "approve"
    => /\ Succeeded
       /\ allowance(allowances, last.caller, last.spender) = last.value
       /\ emitted = <<Approval(last.caller, last.spender, last.value)>>

\* C7's case: an approve over a positive previous allowance, with a
\* positive value.
C7_Witness ==
    /\ last.op = "approve"
    /\ PreAllowance(last.caller, last.spender) > 0
    /\ last.value > 0
    /\ last.value < PreAllowance(last.caller, last.spender)

\* C8: increase_approve(caller, spender, delta) fails with ApproveOverflow
\* exactly when allowance(caller, spender) + delta exceeds the maximum of the
\* amount type, leaving the allowance unchanged; otherwise it succeeds, sets
\* the allowance to old + delta and emits Approval with that value.
C8_IncreaseApprove ==
    last.op = "increase_approve"
    => LET old == PreAllowance(last.caller, last.spender) IN
       IF old + last.value > MaxAmount
       THEN /\ last.result = "ApproveOverflow"
            /\ allowances = pre.allowances
       ELSE /\ Succeeded
            /\ allowance(allowances, last.caller, last.spender) = old + last.value
            /\ emitted = <<Approval(last.caller, last.spender, old + last.value)>>

\* C8's case: an increase at the maximum of the amount type.
C8_Witness ==
    /\ last.op = "increase_approve"
    /\ PreAllowance(last.caller, last.spender) = MaxAmount
    /\ last.value > 0
    /\ last.result = "ApproveOverflow"

\* C9: decrease_approve(caller, spender, delta) fails with
\* AllowanceBelowZero exactly when delta > allowance(caller, spender),
\* leaving the allowance unchanged; otherwise it succeeds, sets the allowance
\* to old - delta and emits Approval with the reduced value.
C9_DecreaseApprove ==
    last.op = "decrease_approve"
    => LET old == PreAllowance(last.caller, last.spender) IN
       IF last.value > old
       THEN /\ last.result = "AllowanceBelowZero"
            /\ allowances = pre.allowances
       ELSE /\ Succeeded
            /\ allowance(allowances, last.caller, last.spender) = old - last.value
            /\ emitted = <<Approval(last.caller, last.spender, old - last.value)>>

\* C9's case: a decrease by the whole of a positive allowance.
C9_Witness ==
    /\ last.op = "decrease_approve"
    /\ PreAllowance(last.caller, last.spender) > 0
    /\ last.value = PreAllowance(last.caller, last.spender)
    /\ Succeeded
    /\ allowance(allowances, last.caller, last.spender) = 0

\* C10: immediately after new(initial_supply) called by minter,
\* total_supply = initial_supply, balance_of(minter) = initial_supply, every
\* other balance and every allowance is 0 (the maps hold no other entry), and
\* exactly one event was emitted, Transfer {from: none, to: minter, value:
\* initial_supply}.
C10_Construction ==
    last.op = "new"
    => /\ total_supply = last.value
       /\ balance_of(balance, last.caller) = last.value
       /\ \A a \in Accounts \ {last.caller} : balance_of(balance, a) = 0
       /\ DOMAIN balance = {last.caller}
       /\ \A o \in Accounts, s \in Accounts : allowance(allowances, o, s) = 0
       /\ DOMAIN allowances = {}
       /\ emitted = <<Transfer(None, last.caller, last.value)>>

\* C10's case: a ledger constructed with the degenerate supply 0.
C10_Witness ==
    /\ last.op = "new"
    /\ calls = 0
    /\ last.value = 0
    /\ balance_of(balance, last.caller) = 0

\* C11: in every state reachable after construction, by any sequence of
\* successful or failed messages, total_supply() returns the initial_supply
\* given to new.
C11_TotalSupplyFixed == total_supply = initial_supply

\* C11's case: two messages after construction, the last one a successful
\* transfer_from of a positive value, and the balances no longer sum to the
\* supply.
C11_Witness ==
    /\ calls = MaxCalls
    /\ last.op = "transfer_from"
    /\ Succeeded
    /\ last.value > 0
    /\ initial_supply > 0
    /\ SumBalances(balance) # total_supply

\* C12: a message emits events if and only if it succeeds, in the specified
\* shape: a successful transfer or transfer_from emits exactly one Transfer
\* {from: some(from), to: some(to), value}; a successful approve,
\* increase_approve or decrease_approve emits exactly one Approval {owner:
\* caller, spender, value: the new allowance}; a message that does not
\* succeed emits nothing; the only Transfer with from = none is the one event
\* of the constructor.
C12_EventsIffSuccess ==
    /\ last.op = "new" => emitted = <<Transfer(None, last.caller, last.value)>>
    /\ (last.op \in {"transfer", "transfer_from"} /\ Succeeded)
       => emitted = <<Transfer(Source, last.to, last.value)>>
    /\ (last.op \in {"approve", "increase_approve", "decrease_approve"} /\ Succeeded)
       => emitted = <<Approval(last.caller, last.spender,
                               allowance(allowances, last.caller, last.spender))>>
    /\ (last.op # "new" /\ ~Succeeded) => emitted = <<>>
    /\ last.op # "new"
       => \A i \in 1..Len(emitted) :
             ~(emitted[i][1] = "Transfer" /\ emitted[i][2] = None)

\* C12's case: a transfer_from that passed the allowance check and failed
\* in inner_transfer, right after a message that emitted an event.
C12_Witness ==
    /\ calls = MaxCalls
    /\ last.op = "transfer_from"
    /\ last.result = "InsuffientBalance"
    /\ last.value > 0
    /\ emitted = <<>>
    /\ pre.allowances # EmptyMap

\* C14: the unchecked addition in inner_transfer is safe: in every reachable
\* state every balance is <= total_supply, and every inner_transfer that
\* passes its balance check computes to_balance + value <= total_supply, so
\* the credit neither overflows, wraps nor aborts.
C14_CreditFits ==
    /\ \A a \in Accounts : balance_of(balance, a) <= total_supply
    /\ (/\ last.op \in {"transfer", "transfer_from"}
        /\ last.result \notin Error)
       => /\ PreBalance(last.to) + last.value <= total_supply
          /\ PreBalance(last.to) + last.value <= MaxAmount
          /\ last.result # Trap

\* C15: every subtraction is evaluated with minuend >= subtrahend:
\* from_balance - value in inner_transfer, allowance - value in
\* transfer_from, origin_value - value in decrease_approve; every stored
\* balance and allowance is within [0, MAX].
C15_NoUnderflow ==
    /\ (last.op \in {"transfer", "transfer_from"} /\ last.result \notin Error)
       => PreBalance(Source) >= last.value
    /\ (last.op = "transfer_from" /\ Succeeded)
       => PreAllowance(last.from, last.caller) >= last.value
    /\ (last.op = "decrease_approve" /\ last.result \notin Error)
       => PreAllowance(last.caller, last.spender) >= last.value
    /\ \A a \in DOMAIN balance : balance[a] \in Amounts
    /\ \A k \in DOMAIN allowances : allowances[k] \in Amounts

\* C15's case: a transfer_from whose value equals both the allowance and
\* from's balance, so that both subtractions yield 0.
C15_Witness ==
    /\ last.op = "transfer_from"
    /\ Succeeded
    /\ last.value > 0
    /\ PreAllowance(last.from, last.caller) = last.value
    /\ PreBalance(last.from) = last.value
    /\ balance_of(balance, last.from) = 0

\* C16: approve, increase_approve and decrease_approve by caller c for
\* spender s change at most the entry allowance(c, s) and no balance;
\* transfer changes no allowance; transfer_from(caller, from, to, value)
\* changes at most the entry allowance(from, caller) and at most the
\* balances of from and to; no message changes total_supply.
C16_Frame ==
    /\ last.op \in {"approve", "increase_approve", "decrease_approve"}
       => /\ balance = pre.balance
          /\ ChangedAllowances \subseteq {<<last.caller, last.spender>>}
    /\ last.op = "transfer"
       => /\ allowances = pre.allowances
          /\ ChangedBalances \subseteq {last.caller, last.to}
    /\ last.op = "transfer_from"
       => /\ ChangedAllowances \subseteq {<<last.from, last.caller>>}
          /\ ChangedBalances \subseteq {last.from, last.to}
    /\ last.op # "new" => total_supply = pre.total_supply

\* C16's case: a successful transfer_from among three distinct accounts.
C16_Witness ==
    /\ last.op = "transfer_from"
    /\ Succeeded
    /\ last.value > 0
    /\ Cardinality({last.caller, last.from, last.to}) = 3
    /\ balance_of(balance, last.to) > PreBalance(last.to)

\* C19: allowance(o, s) increases only in a successful approve or
\* increase_approve called by o for s; a message not called by o changes
\* allowance(o, s) only if it is a successful transfer_from called by s with
\* from = o, and then it lowers it.
C19_AllowanceGrowsByOwnerOnly ==
    last.op # "new"
    => \A k \in ChangedAllowances :
          LET o == k[1]
              s == k[2] IN
          /\ allowance(allowances, o, s) > PreAllowance(o, s)
             => /\ last.op \in {"approve", "increase_approve"}
                /\ Succeeded
                /\ last.caller = o
                /\ last.spender = s
          /\ (/\ allowance(allowances, o, s) # PreAllowance(o, s)
              /\ last.caller # o)
             => /\ last.op = "transfer_from"
                /\ Succeeded
                /\ last.caller = s
                /\ last.from = o
                /\ allowance(allowances, o, s) < PreAllowance(o, s)

\* C19's case: a spender lowers, without exhausting it, the allowance an
\* owner granted.
C19_Witness ==
    /\ last.op = "transfer_from"
    /\ Succeeded
    /\ last.caller # last.from
    /\ 0 < allowance(allowances, last.from, last.caller)
    /\ allowance(allowances, last.from, last.caller)
         < PreAllowance(last.from, last.caller)

\* C13: the balance of an account A decreases in a step only if the step is
\* a successful transfer called by A, or a successful transfer_from(caller,
\* from = A, to, value) with allowance(A, caller) >= value before the step.
C13_DebitAuthorized ==
    last.op # "new"
    => \A a \in Accounts :
          balance_of(balance, a) < PreBalance(a)
          => \/ /\ last.op = "transfer"
                /\ Succeeded
                /\ last.caller = a
             \/ /\ last.op = "transfer_from"
                /\ Succeeded
                /\ last.from = a
                /\ PreAllowance(a, last.caller) >= last.value

\* C17: the approve overwrite race is reachable: the owner approves a, the
\* spender consumes it with transfer_from(a), the owner approves b, the
\* spender succeeds with transfer_from(b); whenever these four messages have
\* succeeded in this order the spender has moved a + b, more than max(a, b),
\* the largest allowance the owner ever stated, and the allowance is
\* consumed.
C17_RaceMovesBothApprovals ==
    audit.stage = 4
    => /\ audit.spent = audit.a + audit.b
       /\ audit.stated_max = Max(audit.a, audit.b)
       /\ audit.spent > audit.stated_max
       /\ allowance(allowances, audit.owner, audit.spender) = 0

\* C17's case: the execution the claim says exists, with every transfer
\* leaving the owner's balance for another account.
C17_Witness ==
    /\ audit.on
    /\ last.to # audit.owner
    /\ balance_of(balance, audit.owner) + audit.spent = initial_supply
    /\ SumBalances(balance) = total_supply
    /\ audit.stage = 4
    /\ audit.a > 0
    /\ audit.b > 0
    /\ audit.owner # audit.spender
    /\ last.op = "transfer_from"
    /\ Succeeded
    /\ audit.spent > audit.stated_max

\* C18: while owner o has changed allowance(o, s) only through
\* increase_approve and decrease_approve (never approve), the value s has
\* moved with successful transfer_from calls plus the current allowance(o, s)
\* equals the deltas of o's successful increases minus those of its
\* successful decreases; so s never spends more than o's net grant.
C18_RelativeGrantsBoundSpending ==
    (audit.on /\ ~audit.approved)
    => /\ audit.spent + allowance(allowances, audit.owner, audit.spender)
            = audit.granted
       /\ audit.spent <= audit.granted

\* C18's case: the owner lowers a grant that the spender has partly spent
\* out of the owner's balance.
C18_Witness ==
    /\ audit.on
    /\ balance_of(balance, audit.owner) + audit.spent = initial_supply
    /\ ~audit.approved
    /\ audit.owner # audit.spender
    /\ audit.spent > 0
    /\ last.op = "decrease_approve"
    /\ Succeeded
    /\ last.value > 0
    /\ audit.granted = audit.spent

====
